---- MODULE Spec2Model ----
(***************************************************************************)
(* The feed session of vortex_api/vortex_feed.py: the reconnecting         *)
(* WebSocket client factory (ClientFactory), its protocol (ClientProtocol) *)
(* and the session object (VortexFeed) that owns the subscription          *)
(* registry and the public connect/close/stop/subscribe API.               *)
(*                                                                         *)
(* Every connect() call builds one ClientFactory; factories are numbered   *)
(* 1..nfac in creation order and the session's `factory` attribute is      *)
(* always the newest one.  A factory has one connector, hence at most one  *)
(* connection (attempt) at a time; `conn[f]` is its position.              *)
(*                                                                         *)
(* The Twisted/autobahn base classes are not part of the repository; the   *)
(* calls the source makes into them (retry, stopTrying, resetDelay,        *)
(* sendClose, sendMessage, reactor.run/stop) are modelled at their call    *)
(* sites by what those library routines do.                                *)
(*                                                                         *)
(* Eight specifications share the state and the handlers:                  *)
(*   Spec           the session's API and its reconnect machinery;         *)
(*   SpecKeepalive  the same connections with the clock running: pongs,    *)
(*                  the ping timer and the pong-check timer;               *)
(*   SpecRegistry   subscribe / unsubscribe on several tokens, with a log  *)
(*                  of the calls;                                          *)
(*   SpecMessages   inbound frames and their dispatch to the callbacks;    *)
(*   SpecCodec      the parsers of text and binary payloads, applied to    *)
(*                  one payload, binary data kept byte by byte;            *)
(*   SpecConstruction  the constructor's arguments, queries on a session   *)
(*                  before and after connect(), and a server refusing      *)
(*                  every attempt;                                         *)
(*   SpecThreads    the loop on the caller's or on a worker thread,        *)
(*                  connect() on a live session, and the resubscribe pass  *)
(*                  in two steps;                                          *)
(*   SpecCallbacks  connections closing while an application callback      *)
(*                  raises inside onClose, the clock running.              *)
(***************************************************************************)
EXTENDS Integers, Sequences, FiniteSets, TLC

\* ---------------------------------------------------------------- bounds
\* connect() calls modelled on one session
MaxConnects == 2
\* largest reconnect_max_tries handed to the constructor
MaxTriesReq == 3
\* how far the clock runs, in half seconds
MaxTime == 16

\* ------------------------------------------------------ program constants
RECONNECT_MAX_TRIES == 50
RECONNECT_MAX_DELAY == 60
\* ClientProtocol.PING_INTERVAL is 2.5 s; the clock `now` counts half seconds
PING_INTERVAL == 5

Exchanges == {"NSE_EQ"}
Tokens == {22}
\* the tokens of the specification that follows the registry
TokensRegistry == {22, 26}
Modes == {"ltp", "full"}

FacIds == 1..MaxConnects

VARIABLES
    reconnect_max_tries,  \* VortexFeed.reconnect_max_tries (set once by __init__)
    reconnect_max_delay,  \* VortexFeed.reconnect_max_delay (set once by __init__)
    ctorArgs,             \* the arguments __init__ was called with, where recorded
    debug,                \* VortexFeed.debug, copied to factory.debug
    nfac,                 \* number of factories built so far; self.factory = nfac
    retries,              \* factory.retries
    continueTrying,       \* factory.continueTrying
    callID,               \* factory._callID: a retry timer is pending
    conn,                 \* position of the factory's connector / protocol
    ws,                   \* VortexFeed.ws: 0 = None, f = the protocol last connected by f
    is_first_connect,     \* VortexFeed._is_first_connect
    subscribed_tokens,    \* VortexFeed.subscribed_tokens: exchange -> token -> mode
    reactor,              \* the event loop: "idle", "running", "stopped"
    last,                 \* the handler or API call that ran last
    out,                  \* what that handler emitted, in order: callbacks, frames
                          \* sent, and "resubscribe" for a call of resubscribe()
    sched,                \* retries scheduled by f since its last successful connect
    closeCalled,          \* close() was called while f was the session's factory
    stopCalled,           \* stop() was called while the loop was running
    connectedOnce,        \* f has completed an opening handshake
    lastAttempt,          \* the attempt count f passed to on_reconnect last since
                          \* its last successful connection (0: none yet)
    now,                  \* time.time(), in half seconds since the session was built
    last_pong_time,       \* protocol._last_pong_time of f's protocol (None: none)
    next_ping,            \* protocol._next_ping: due time of the pending ping timer
    next_pong_check,      \* protocol._next_pong_check: due time of the pending check
    aborts,               \* transport aborts carried out on f's current connection
    pongAt,               \* when the last pong arrived on f's current connection
    callLog,              \* per (exchange, token): the last subscribe's mode or
                          \* "unsubscribe" ("": no call yet), kept while no send failed
    sendFailed,           \* a subscribe or unsubscribe call has raised
    failedSub,            \* the subscribe call that raised last since the last
                          \* re-open, as {<<exchange, token, mode>>}, or {}
    input,                \* a payload handed to one of the parsers
    result,               \* what the parser made of it
    opened,               \* an opening handshake has completed in the session's
                          \* life
    loopThread,           \* the thread running reactor.run: "none", "caller"
                          \* (inside connect) or "worker" (websocket_thread)
    threaded,             \* the threaded argument of the last connect call
    inRun,                \* the last connect call is inside reactor.run, on its
                          \* caller's thread
    pass,                 \* the factory whose _on_open is inside resubscribe(),
                          \* between two reads of the registry (0: none)
    raced                 \* a subscribe or unsubscribe call sent its frame and
                          \* wrote the registry while a resubscribe pass was in
                          \* progress

vars == <<reconnect_max_tries, reconnect_max_delay, ctorArgs, input, result, debug, nfac, retries, continueTrying, callID, conn,
          ws, is_first_connect, subscribed_tokens, reactor, last, out, sched,
          closeCalled, stopCalled, connectedOnce, lastAttempt,
          now, last_pong_time, next_ping, next_pong_check, aborts, pongAt,
          callLog, sendFailed, failedSub, opened, loopThread,
          threaded, inRun, pass, raced>>

facVars == <<retries, continueTrying, callID, conn, sched>>
cfgVars == <<reconnect_max_tries, reconnect_max_delay, ctorArgs, debug>>
\* a parser's payload and result
ioVars == <<input, result>>
\* the history of opens
openVars == <<opened>>
\* the threads: who runs the loop, who is inside what
thrVars == <<loopThread, threaded, inRun, pass, raced>>
extVars == <<ioVars, openVars, thrVars>>
ghostVars == <<closeCalled, stopCalled, connectedOnce, lastAttempt>>
\* the history of subscribe / unsubscribe calls
regGhost == <<callLog, sendFailed, failedSub>>
\* the keepalive state of the protocols, and the clock
kaVars == <<now, last_pong_time, next_ping, next_pong_check, aborts, pongAt>>

\* ------------------------------------------------------------ observations
Ev(name, n) == [ev |-> name, n |-> n, ex |-> "", tok |-> 0, mode |-> ""]
SendEv(type, e, t, m) == [ev |-> type, n |-> 0, ex |-> e, tok |-> t, mode |-> m]
Last(op, f, n, sch, abn, first, rs) ==
    [op |-> op, fac |-> f, n |-> n, scheduled |-> sch, abnormal |-> abn,
     first |-> first, raised |-> rs]

Count(s, name) == Cardinality({i \in 1..Len(s) : s[i].ev = name})
Emitted(s, name) == \E i \in 1..Len(s) : s[i].ev = name

\* a dict with no keys
EmptyMap == [k \in {} |-> 0]

Pairs == Exchanges \X TokensRegistry
NoCalls == [p \in Pairs |-> ""]

\* Python's None where the model holds a time: no pong yet, no timer pending
None == 0 - 1

\* ------------------------------------------------------------ construction
\* VortexFeed.__init__: the retry ceiling as stored
\* __init__ storing the requested ceiling as it is
InitMaxTriesAsRequested(reconnect, requested) ==
    IF ~reconnect THEN 0 ELSE requested

InitMaxTries(reconnect, requested) ==
    IF ~reconnect THEN 0
    ELSE IF requested > RECONNECT_MAX_TRIES THEN RECONNECT_MAX_TRIES
    ELSE requested

\* VortexFeed.__init__: the backoff ceiling as stored
InitMaxDelay(requested) == IF requested < 0 THEN 0 ELSE requested

\* no constructor arguments on record
NoArgs == [reconnect |-> TRUE, tries |-> 0, delay |-> 0, recorded |-> FALSE]

\* no payload, no result
NoInput == [kind |-> "none"]
NoResult == [op |-> ""]

\* what __init__ and the class attributes leave besides the configuration:
\* no factory, no handle, an empty registry, the loop not started
SessionFields ==
    /\ nfac = 0
    /\ retries = [f \in FacIds |-> 0]
    /\ continueTrying = [f \in FacIds |-> TRUE]
    /\ callID = [f \in FacIds |-> FALSE]
    /\ conn = [f \in FacIds |-> "idle"]
    /\ ws = 0
    /\ is_first_connect = TRUE
    /\ subscribed_tokens = EmptyMap
    /\ reactor = "idle"
    /\ last = Last("init", 0, 0, FALSE, FALSE, FALSE, "")
    /\ out = << >>
    /\ sched = [f \in FacIds |-> 0]
    /\ closeCalled = [f \in FacIds |-> FALSE]
    /\ stopCalled = FALSE
    /\ connectedOnce = [f \in FacIds |-> FALSE]
    /\ lastAttempt = [f \in FacIds |-> 0]
    /\ now = 0
    /\ last_pong_time = [f \in FacIds |-> None]
    /\ next_ping = [f \in FacIds |-> None]
    /\ next_pong_check = [f \in FacIds |-> None]
    /\ aborts = [f \in FacIds |-> 0]
    /\ pongAt = [f \in FacIds |-> None]
    /\ callLog = NoCalls
    /\ sendFailed = FALSE
    /\ failedSub = {}
    /\ opened = FALSE
    /\ loopThread = "none"
    /\ threaded = FALSE
    /\ inRun = FALSE
    /\ pass = 0
    /\ raced = FALSE

\* The session as constructed, before connect().  The retry ceiling is what
\* __init__ stores for the requested value, the backoff ceiling the default;
\* debug is True after __init__ and is a public attribute the application
\* may clear before connecting.
Init ==
    /\ \E reconnect \in BOOLEAN, requested \in 0..MaxTriesReq :
          reconnect_max_tries = InitMaxTries(reconnect, requested)
    /\ reconnect_max_delay = InitMaxDelay(RECONNECT_MAX_DELAY)
    /\ ctorArgs = NoArgs
    /\ debug \in BOOLEAN
    /\ SessionFields
    /\ input = NoInput
    /\ result = NoResult

\* _create_connection: factory.maxRetries
MaxRetries(f) == reconnect_max_tries

\* _create_connection: factory.maxDelay
MaxDelay(f) == reconnect_max_delay

\* the event loop delivers events and fires timers only while it runs
LoopRunning == reactor = "running"

\* ------------------------------------------------- ClientFactory (reconnect)
\* retry without the maxRetries test
RetryIgnoresCeiling(f) ==
    IF ~continueTrying[f]
    THEN [retries |-> retries[f], scheduled |-> FALSE]
    ELSE [retries |-> retries[f] + 1, scheduled |-> TRUE]

\* ReconnectingClientFactory.retry(connector), as called by
\* clientConnectionFailed / clientConnectionLost: gives up silently when
\* continueTrying is off, otherwise counts the retry and, unless the count
\* now exceeds maxRetries, schedules the reconnector timer.
Retry(f) ==
    IF ~continueTrying[f]
    THEN [retries |-> retries[f], scheduled |-> FALSE]
    ELSE LET r == retries[f] + 1
         IN  [retries |-> r, scheduled |-> ~(r > MaxRetries(f))]

\* ClientFactory.send_noreconnect, run with the counter `r` that retry left.
\* With debug on it calls self.stop(), a method neither ClientFactory nor its
\* base classes define: the AttributeError leaves the handler before
\* on_noreconnect is reached.
SendNoReconnect(f, r) ==
    IF r > MaxRetries(f)
    THEN IF debug
         THEN [out |-> << >>, raised |-> "AttributeError"]
         ELSE [out |-> <<Ev("on_noreconnect", 0)>>, raised |-> ""]
    ELSE [out |-> << >>, raised |-> ""]

\* the on_reconnect notification of clientConnectionFailed / clientConnectionLost
NotifyReconnect(f) ==
    IF retries[f] > 0 THEN <<Ev("on_reconnect", retries[f])>> ELSE << >>

\* The common body of clientConnectionFailed and clientConnectionLost:
\* on_reconnect (only when retries > 0), retry, send_noreconnect.
\* `pre` is what ran before it in the same event (onClose's callbacks).
ClientConnectionEnded(f, op, abnormal, pre) ==
    LET rt == Retry(f)
        nr == SendNoReconnect(f, rt.retries)
    IN  /\ retries' = [retries EXCEPT ![f] = rt.retries]
        /\ callID' = [callID EXCEPT ![f] = rt.scheduled]
        /\ sched' = [sched EXCEPT ![f] = @ + (IF rt.scheduled THEN 1 ELSE 0)]
        /\ conn' = [conn EXCEPT ![f] = "idle"]
        /\ out' = pre \o NotifyReconnect(f) \o nr.out
        /\ last' = Last(op, f, retries[f], rt.scheduled, abnormal, FALSE, nr.raised)
        /\ lastAttempt' = IF NotifyReconnect(f) # << >>
                          THEN [lastAttempt EXCEPT ![f] = retries[f]]
                          ELSE lastAttempt
        /\ UNCHANGED continueTrying

\* ClientProtocol.onClose -> VortexFeed._on_error / _on_close
OnCloseCallbacks(was_clean) ==
    (IF ~was_clean THEN <<Ev("on_error", 0)>> ELSE << >>) \o <<Ev("on_close", 0)>>

\* the TCP/TLS connection attempt fails: clientConnectionFailed
ConnectFailed(f) ==
    /\ LoopRunning
    /\ f <= nfac
    /\ conn[f] = "connecting"
    /\ ClientConnectionEnded(f, "clientConnectionFailed", TRUE, << >>)
    /\ UNCHANGED <<cfgVars, extVars, regGhost, nfac, ws, is_first_connect, subscribed_tokens, reactor,
                   closeCalled, stopCalled, connectedOnce, kaVars>>

\* the transport is up; the WebSocket opening handshake is in flight.
\* The factory has built a new ClientProtocol for this connection: its
\* keepalive attributes are the class defaults (None).
TransportConnected(f) ==
    /\ LoopRunning
    /\ f <= nfac
    /\ conn[f] = "connecting"
    /\ conn' = [conn EXCEPT ![f] = "handshake"]
    /\ last_pong_time' = [last_pong_time EXCEPT ![f] = None]
    /\ next_ping' = [next_ping EXCEPT ![f] = None]
    /\ next_pong_check' = [next_pong_check EXCEPT ![f] = None]
    /\ aborts' = [aborts EXCEPT ![f] = 0]
    /\ pongAt' = [pongAt EXCEPT ![f] = None]
    /\ last' = Last("connectionMade", f, retries[f], FALSE, FALSE, FALSE, "")
    /\ out' = << >>
    /\ UNCHANGED <<cfgVars, extVars, regGhost, nfac, retries, continueTrying, callID, sched, ws,
                   is_first_connect, subscribed_tokens, reactor, ghostVars, now>>

\* the connection goes away: ClientProtocol.onClose (the callbacks, then the
\* pong and ping times forgotten and both keepalive timers cancelled), then
\* clientConnectionLost.
\* From "handshake" the WebSocket never opened, and an aborted connection
\* had no closing handshake, so the close cannot be clean.
ConnectionLost(f, was_clean) ==
    /\ LoopRunning
    /\ f <= nfac
    /\ conn[f] \in {"handshake", "open", "closing", "aborted"}
    /\ (conn[f] \in {"handshake", "aborted"} => ~was_clean)
    /\ ClientConnectionEnded(f, "clientConnectionLost", ~was_clean,
                             OnCloseCallbacks(was_clean))
    /\ last_pong_time' = [last_pong_time EXCEPT ![f] = None]
    /\ next_ping' = [next_ping EXCEPT ![f] = None]
    /\ next_pong_check' = [next_pong_check EXCEPT ![f] = None]
    /\ pongAt' = [pongAt EXCEPT ![f] = None]
    /\ UNCHANGED <<cfgVars, extVars, regGhost, nfac, ws, is_first_connect, subscribed_tokens, reactor,
                   closeCalled, stopCalled, connectedOnce, now, aborts>>

\* the retry timer fires: reconnector() clears _callID and reconnects
Reconnector(f) ==
    /\ LoopRunning
    /\ f <= nfac
    /\ callID[f]
    /\ callID' = [callID EXCEPT ![f] = FALSE]
    /\ conn' = [conn EXCEPT ![f] = "connecting"]
    /\ last' = Last("reconnector", f, retries[f], FALSE, FALSE, FALSE, "")
    /\ out' = << >>
    /\ UNCHANGED <<cfgVars, extVars, regGhost, nfac, retries, continueTrying, sched, ws,
                   is_first_connect, subscribed_tokens, reactor, ghostVars, kaVars>>

\* ------------------------------------------------------ subscription registry
Entries(reg) == UNION {{<<e, t, reg[e][t]>> : t \in DOMAIN reg[e]} : e \in DOMAIN reg}

\* subscribe that keeps the mode of a pair already in the registry
RegistryPutKeepsMode(reg, e, t, m) ==
    IF e \in DOMAIN reg
    THEN [reg EXCEPT ![e] = [x \in (DOMAIN reg[e]) \cup {t} |->
                                 IF x \in DOMAIN reg[e] THEN reg[e][x] ELSE m]]
    ELSE [x \in (DOMAIN reg) \cup {e} |-> IF x = e THEN (t :> m) ELSE reg[x]]

\* subscribe: self.subscribed_tokens[exchange][token] = mode, creating the
\* inner dict on KeyError
RegistryPut(reg, e, t, m) ==
    IF e \in DOMAIN reg
    THEN [reg EXCEPT ![e] = [x \in (DOMAIN reg[e]) \cup {t} |->
                                 IF x = t THEN m ELSE reg[e][x]]]
    ELSE [x \in (DOMAIN reg) \cup {e} |-> IF x = e THEN (t :> m) ELSE reg[x]]

\* unsubscribe: del self.subscribed_tokens[exchange][token], KeyError ignored;
\* the exchange key stays, with an empty inner dict when its last token goes
RegistryRemove(reg, e, t) ==
    IF e \in DOMAIN reg /\ t \in DOMAIN reg[e]
    THEN [reg EXCEPT ![e] = [x \in (DOMAIN reg[e]) \ {t} |-> reg[e][x]]]
    ELSE reg

\* VortexFeed.resubscribe.  The first loop calls self.subscribe(exchange=...,
\* token=...) without the required `mode`: the call raises TypeError before
\* subscribe's body runs, so nothing is sent.  With no token at all but an
\* exchange key left, the second loop takes the inner dict as a mode and
\* modes.get(dict) raises TypeError (unhashable).  Only a registry with no
\* key at all gets through, sending nothing.
Resubscribe(reg) ==
    IF \E e \in DOMAIN reg : DOMAIN reg[e] # {}
    THEN [out |-> << >>, raised |-> "TypeError"]
    ELSE IF DOMAIN reg # {}
    THEN [out |-> << >>, raised |-> "TypeError"]
    ELSE [out |-> << >>, raised |-> ""]

\* --------------------------------------------------------- ClientProtocol
\* the state the protocol object held in VortexFeed.ws reports
WsState ==
    IF ws = 0 THEN "none"
    ELSE IF conn[ws] \in {"open", "closing"} THEN conn[ws]
    ELSE "closed"

\* is_connected without the test of the handle's state
HasHandle == ws # 0

\* VortexFeed.is_connected
is_connected == ws # 0 /\ WsState = "open"

\* A call of is_connected(): its value (1: True, 0: False) or what it
\* raises.  __init__ assigns neither self.ws nor self.factory and the class
\* has no such attribute; _create_connection, run by connect, is the first
\* to set them.  Before it, reading self.ws raises AttributeError.
IsConnected ==
    /\ last' = Last("is_connected", nfac, IF nfac > 0 /\ is_connected THEN 1 ELSE 0,
                    FALSE, FALSE, FALSE, IF nfac = 0 THEN "AttributeError" ELSE "")
    /\ out' = << >>
    /\ UNCHANGED <<cfgVars, extVars, regGhost, nfac, facVars, ws, is_first_connect,
                   subscribed_tokens, reactor, ghostVars, kaVars>>

\* onConnect without the resetDelay call
OnConnectNoReset(f) ==
    [retries |-> retries[f], continueTrying |-> continueTrying[f], callID |-> callID[f]]

\* ClientProtocol.onConnect: self.factory.resetDelay(), which zeroes the
\* retry counter, forgets the timer handle and turns continueTrying back on
OnConnectReset(f) == [retries |-> 0, continueTrying |-> TRUE, callID |-> FALSE]

\* The server accepts the opening handshake: ClientProtocol.onConnect
\* (factory.ws, VortexFeed._on_connect, resetDelay), then ClientProtocol.onOpen
\* (_loop_ping and _loop_pong_check: the first ping is sent, no pong is on
\* record yet, both timers are set PING_INTERVAL ahead), then
\* VortexFeed._on_open (resubscribe unless first connect, then on_open).
\* _on_open: the resubscribe pass runs unless this is the first connect
ResubscribeAlways == TRUE

ResubscribeDue == ~is_first_connect

HandshakeOk(f) ==
    /\ LoopRunning
    /\ f <= nfac
    /\ conn[f] = "handshake"
    /\ LET rs == OnConnectReset(f)
           rb == IF ResubscribeDue
                 THEN [out |-> <<Ev("resubscribe", 0)>> \o Resubscribe(subscribed_tokens).out,
                       raised |-> Resubscribe(subscribed_tokens).raised]
                 ELSE [out |-> << >>, raised |-> ""]
       IN  /\ ws' = f
           /\ retries' = [retries EXCEPT ![f] = rs.retries]
           /\ continueTrying' = [continueTrying EXCEPT ![f] = rs.continueTrying]
           /\ callID' = [callID EXCEPT ![f] = rs.callID]
           /\ sched' = [sched EXCEPT ![f] = 0]
           /\ conn' = [conn EXCEPT ![f] = "open"]
           /\ IF rb.raised # ""
              THEN /\ out' = <<Ev("on_connect", 0)>> \o rb.out
                   /\ UNCHANGED is_first_connect
              ELSE /\ out' = <<Ev("on_connect", 0)>> \o rb.out \o <<Ev("on_open", 0)>>
                   /\ is_first_connect' = FALSE
           /\ last' = Last("onOpen", f, retries[f], FALSE, FALSE, is_first_connect,
                           rb.raised)
    /\ connectedOnce' = [connectedOnce EXCEPT ![f] = TRUE]
    /\ lastAttempt' = [lastAttempt EXCEPT ![f] = 0]
    /\ next_ping' = [next_ping EXCEPT ![f] = now + PING_INTERVAL]
    /\ next_pong_check' = [next_pong_check EXCEPT ![f] = now + PING_INTERVAL]
    /\ failedSub' = IF is_first_connect THEN failedSub ELSE {}
    /\ opened' = TRUE
    /\ pass' = 0
    /\ UNCHANGED <<cfgVars, ioVars, loopThread, threaded, inRun, raced, callLog,
                   sendFailed, nfac, subscribed_tokens, reactor,
                   closeCalled, stopCalled, now, last_pong_time, aborts, pongAt>>

\* ------------------------------------------------------------- public API
\* factory f has no connection, no attempt in flight and no retry timer:
\* neither the reactor nor a connector will ever call it again
Ended(f) == conn[f] = "idle" /\ ~callID[f]

\* VortexFeed.connect: _create_connection builds a new factory (retries 0,
\* continueTrying on, no timer) and sets self.ws = factory.ws = None; connectWS
\* starts the first attempt; the reactor is started unless it runs already.
\* A reactor that was stopped cannot be run again: reactor.run() raises
\* ReactorNotRestartable and the connector's deferred start never runs, so
\* no attempt is made.
\* In this specification the application calls connect() the first time, and
\* again only once the previous factory has ended, so one factory at a time
\* delivers events.  The ended factory is then garbage (the session, the
\* reactor and the connector hold no reference to it): its fields are put
\* back to their initial values, so that ended factories are not told apart.
\* connect, lines 323 to 333: a loop that is not running is started, on a
\* worker thread when threaded, else by reactor.run() on the caller's thread,
\* which returns when the loop stops; a running loop is left alone and the
\* call returns.  A stopped loop cannot be run again: reactor.run raises, in
\* the thread that called it.
RunLoop(th) ==
    IF reactor = "idle"
    THEN [loopThread |-> IF th THEN "worker" ELSE "caller", inRun |-> ~th]
    ELSE [loopThread |-> loopThread, inRun |-> FALSE]

connectIn(th) ==
    /\ nfac < MaxConnects
    /\ nfac > 0 => Ended(nfac)
    /\ nfac' = nfac + 1
    /\ ws' = 0
    /\ retries' = [f \in FacIds |-> 0]
    /\ continueTrying' = [f \in FacIds |-> TRUE]
    /\ callID' = [f \in FacIds |-> FALSE]
    /\ conn' = [f \in FacIds |-> IF f = nfac + 1 /\ reactor # "stopped"
                                 THEN "connecting" ELSE "idle"]
    /\ sched' = [f \in FacIds |-> 0]
    /\ closeCalled' = [f \in FacIds |-> FALSE]
    /\ connectedOnce' = [f \in FacIds |-> FALSE]
    /\ lastAttempt' = [f \in FacIds |-> 0]
    /\ last_pong_time' = [f \in FacIds |-> None]
    /\ next_ping' = [f \in FacIds |-> None]
    /\ next_pong_check' = [f \in FacIds |-> None]
    /\ aborts' = [f \in FacIds |-> 0]
    /\ pongAt' = [f \in FacIds |-> None]
    /\ reactor' = IF reactor = "idle" THEN "running" ELSE reactor
    /\ last' = Last("connect", nfac + 1, 0, FALSE, FALSE, FALSE,
                    IF reactor = "stopped" /\ ~th THEN "ReactorNotRestartable" ELSE "")
    /\ out' = << >>
    /\ threaded' = th
    /\ loopThread' = RunLoop(th).loopThread
    /\ inRun' = RunLoop(th).inRun
    /\ UNCHANGED <<cfgVars, ioVars, openVars, pass, raced, regGhost, is_first_connect,
                   subscribed_tokens, stopCalled, now>>

\* connect(), threaded left at its default
connect == connectIn(FALSE)

\* the factories with a connection, a connection attempt or a retry timer
Live == {f \in FacIds : f <= nfac /\ (conn[f] # "idle" \/ callID[f])}

\* connect() called while the session's factory still has a connection, an
\* attempt or a retry pending: _create_connection replaces self.factory and
\* self.ws and connectWS starts the new factory's connector; nothing stops
\* the old factory, whose callbacks stay bound to the session.  The loop has
\* been started before, so lines 323 to 333 start nothing.
connectAgain(th) ==
    /\ nfac < MaxConnects
    /\ nfac > 0
    /\ ~Ended(nfac)
    /\ Cardinality(Live) = 1
    /\ nfac' = nfac + 1
    /\ ws' = 0
    /\ conn' = [conn EXCEPT ![nfac + 1] = IF reactor # "stopped" THEN "connecting"
                                          ELSE "idle"]
    /\ last' = Last("connect", nfac + 1, 0, FALSE, FALSE, FALSE,
                    IF reactor = "stopped" /\ ~th THEN "ReactorNotRestartable" ELSE "")
    /\ out' = << >>
    /\ threaded' = th
    /\ loopThread' = RunLoop(th).loopThread
    /\ inRun' = RunLoop(th).inRun
    /\ UNCHANGED <<cfgVars, ioVars, openVars, pass, raced, regGhost, retries,
                   continueTrying, callID, sched, is_first_connect, subscribed_tokens,
                   reactor, ghostVars, kaVars>>

\* resubscribe(), entered by _on_open on a re-open, has read the registry
\* (the iterator of line 404) and has not yet read it again (line 405): the
\* loop's thread is between two of its registry reads.
PassBegin(f) ==
    /\ LoopRunning
    /\ f <= nfac
    /\ conn[f] = "handshake"
    /\ ResubscribeDue
    /\ pass = 0
    /\ pass' = f
    /\ UNCHANGED <<cfgVars, ioVars, openVars, loopThread, threaded, inRun, raced,
                   regGhost, nfac, facVars, ws, is_first_connect, subscribed_tokens,
                   reactor, last, out, ghostVars, kaVars>>

\* VortexFeed._close: sendClose on the protocol in self.ws, if any; only an
\* open protocol sends the close frame and starts the closing handshake
SendClose(c) == IF ws # 0 /\ c[ws] = "open" THEN [c EXCEPT ![ws] = "closing"] ELSE c

\* VortexFeed.close: stop_retry (factory.stopTrying: cancel the pending retry
\* timer, continueTrying off; the factory never recorded its connector, so a
\* connection attempt in flight is left alone), then _close.
\* Without a connect() before it there is no self.factory: AttributeError.
close ==
    /\ IF nfac = 0
       THEN /\ last' = Last("close", 0, 0, FALSE, FALSE, FALSE, "AttributeError")
            /\ UNCHANGED <<callID, continueTrying, conn, closeCalled>>
       ELSE /\ callID' = [callID EXCEPT ![nfac] = FALSE]
            /\ continueTrying' = [continueTrying EXCEPT ![nfac] = FALSE]
            /\ conn' = SendClose(conn)
            /\ closeCalled' = [closeCalled EXCEPT ![nfac] = TRUE]
            /\ last' = Last("close", nfac, retries[nfac], FALSE, FALSE, FALSE, "")
    /\ out' = << >>
    /\ UNCHANGED <<cfgVars, extVars, regGhost, nfac, retries, sched, ws, is_first_connect,
                   subscribed_tokens, reactor, stopCalled, connectedOnce, lastAttempt,
                   kaVars>>

\* stop() without the "reactor.stop()" effect
stopLeavesLoopRunning ==
    /\ stopCalled' = (stopCalled \/ reactor = "running")
    /\ last' = Last("stop", nfac, 0, FALSE, FALSE, FALSE, "")
    /\ out' = << >>
    /\ UNCHANGED <<cfgVars, extVars, regGhost, nfac, facVars, ws, is_first_connect, subscribed_tokens,
                   reactor, closeCalled, connectedOnce, lastAttempt, kaVars>>

\* VortexFeed.stop: reactor.stop() halts the event loop for good; on a
\* reactor that is not running it raises ReactorNotRunning and changes nothing
stop ==
    /\ IF reactor = "running"
       THEN /\ reactor' = "stopped"
            /\ stopCalled' = TRUE
            /\ last' = Last("stop", nfac, 0, FALSE, FALSE, FALSE, "")
       ELSE /\ last' = Last("stop", nfac, 0, FALSE, FALSE, FALSE, "ReactorNotRunning")
            /\ UNCHANGED <<reactor, stopCalled>>
    /\ out' = << >>
    /\ inRun' = (inRun /\ reactor # "running")
    /\ UNCHANGED <<cfgVars, ioVars, openVars, loopThread, threaded, pass, raced,
                   regGhost, nfac, facVars, ws, is_first_connect, subscribed_tokens,
                   closeCalled, connectedOnce, lastAttempt, kaVars>>

\* the except branch without its _close call
SendErrorNoClose(c) == [conn |-> c, out |-> << >>]

\* subscribe / unsubscribe, `except Exception`: self._close(reason="Error
\* while ...: <the exception>"), then the exception is raised again
SendError(c) == [conn |-> SendClose(c), out |-> <<Ev("_close", 0)>>]

\* VortexFeed.subscribe.  sendMessage on self.ws: None has no sendMessage
\* (AttributeError); an open protocol sends; a protocol that is not open
\* either raises or drops the frame silently, depending on the autobahn
\* release (`send_raises`).  On an exception: _close(reason), re-raise, the
\* registry untouched.  Otherwise the registry is updated and True returned.
\* `last` carries the token in n and the exception, if any, in raised.
subscribe(e, t, m, send_raises) ==
    /\ LET st == WsState
           raised == IF st = "none" THEN "AttributeError"
                     ELSE IF st # "open" /\ send_raises THEN "Disconnected"
                     ELSE ""
       IN  /\ IF raised # ""
              THEN /\ conn' = SendError(conn).conn
                   /\ out' = SendError(conn).out
                   /\ UNCHANGED subscribed_tokens
              ELSE /\ subscribed_tokens' = RegistryPut(subscribed_tokens, e, t, m)
                   /\ out' = IF st = "open" THEN <<SendEv("subscribe", e, t, m)>>
                             ELSE << >>
                   /\ UNCHANGED conn
           /\ last' = Last("subscribe", ws, t, FALSE, FALSE, FALSE, raised)
           /\ raced' = (raced \/ (pass # 0 /\ raised = ""))
    /\ UNCHANGED <<cfgVars, ioVars, openVars, loopThread, threaded, inRun, pass, nfac,
                   retries, continueTrying, callID, sched, ws,
                   is_first_connect, reactor, ghostVars, kaVars>>

\* VortexFeed.unsubscribe: as subscribe, the registry entry deleted only
\* after a send that did not raise
unsubscribe(e, t, send_raises) ==
    /\ LET st == WsState
           raised == IF st = "none" THEN "AttributeError"
                     ELSE IF st # "open" /\ send_raises THEN "Disconnected"
                     ELSE ""
       IN  /\ IF raised # ""
              THEN /\ conn' = SendError(conn).conn
                   /\ out' = SendError(conn).out
                   /\ UNCHANGED subscribed_tokens
              ELSE /\ subscribed_tokens' = RegistryRemove(subscribed_tokens, e, t)
                   /\ out' = IF st = "open" THEN <<SendEv("unsubscribe", e, t, "")>>
                             ELSE << >>
                   /\ UNCHANGED conn
           /\ last' = Last("unsubscribe", ws, t, FALSE, FALSE, FALSE, raised)
           /\ raced' = (raced \/ (pass # 0 /\ raised = ""))
    /\ UNCHANGED <<cfgVars, ioVars, openVars, loopThread, threaded, inRun, pass, nfac,
                   retries, continueTrying, callID, sched, ws,
                   is_first_connect, reactor, ghostVars, kaVars>>

\* ------------------------------------------------- ClientProtocol keepalive
\* the liveness test with >= in place of >
PongOverdueOrDue(last_pong, t) ==
    last_pong # None /\ t - last_pong >= 2 * PING_INTERVAL

\* _loop_pong_check's test: a pong is on record and it is more than
\* 2 * PING_INTERVAL old
PongOverdue(last_pong, t) ==
    last_pong # None /\ t - last_pong > 2 * PING_INTERVAL

\* the drop done with a close frame: the closing handshake starts, the
\* transport is not aborted
DropConnectionByCloseFrame(f) ==
    [conn |-> IF conn[f] = "open" THEN "closing" ELSE conn[f], aborts |-> aborts[f]]

\* self.dropConnection(abort=True): a protocol that is not CLOSED goes to
\* CLOSED at once and its transport is aborted, which queues connectionLost
\* for the loop's next turn; on a CLOSED protocol the call does nothing
DropConnection(f) ==
    IF conn[f] \in {"open", "closing"}
    THEN [conn |-> "aborted", aborts |-> aborts[f] + 1]
    ELSE [conn |-> conn[f], aborts |-> aborts[f]]

\* a keepalive timer of f is due
TimerDue(f) ==
    \/ next_ping[f] # None /\ next_ping[f] <= now
    \/ next_pong_check[f] # None /\ next_pong_check[f] <= now

\* Half a second passes.  A running loop fires its timers on time and
\* delivers the queued connectionLost of an aborted transport first.
Tick ==
    /\ now < MaxTime
    /\ LoopRunning => \A f \in FacIds : ~TimerDue(f) /\ conn[f] # "aborted"
    /\ now' = now + 1
    /\ last' = Last("tick", 0, 0, FALSE, FALSE, FALSE, "")
    /\ out' = << >>
    /\ UNCHANGED <<cfgVars, extVars, regGhost, nfac, facVars, ws, is_first_connect, subscribed_tokens,
                   reactor, ghostVars, last_pong_time, next_ping, next_pong_check,
                   aborts, pongAt>>

\* ClientProtocol.onPong: the server's pong arrives
onPong(f) ==
    /\ LoopRunning
    /\ f <= nfac
    /\ conn[f] \in {"open", "closing"}
    /\ last_pong_time' = [last_pong_time EXCEPT ![f] = now]
    /\ pongAt' = [pongAt EXCEPT ![f] = now]
    /\ last' = Last("onPong", f, 0, FALSE, FALSE, FALSE, "")
    /\ out' = << >>
    /\ UNCHANGED <<cfgVars, extVars, regGhost, nfac, facVars, ws, is_first_connect, subscribed_tokens,
                   reactor, ghostVars, now, next_ping, next_pong_check, aborts>>

\* ClientProtocol._loop_ping, fired by its timer: sendPing (only an open
\* protocol sends) and the timer set again
_loop_ping(f) ==
    /\ LoopRunning
    /\ f <= nfac
    /\ next_ping[f] # None /\ next_ping[f] <= now
    /\ next_ping' = [next_ping EXCEPT ![f] = now + PING_INTERVAL]
    /\ last' = Last("_loop_ping", f, 0, TRUE, FALSE, FALSE, "")
    /\ out' = IF conn[f] = "open" THEN <<Ev("ping", 0)>> ELSE << >>
    /\ UNCHANGED <<cfgVars, extVars, regGhost, nfac, facVars, ws, is_first_connect, subscribed_tokens,
                   reactor, ghostVars, now, last_pong_time, next_pong_check, aborts,
                   pongAt>>

\* ClientProtocol._loop_pong_check, fired by its timer: dropConnection when
\* the last pong is overdue; the timer is set again in either case
_loop_pong_check(f) ==
    /\ LoopRunning
    /\ f <= nfac
    /\ next_pong_check[f] # None /\ next_pong_check[f] <= now
    /\ LET overdue == PongOverdue(last_pong_time[f], now)
           dc == DropConnection(f)
       IN  /\ conn' = [conn EXCEPT ![f] = IF overdue THEN dc.conn ELSE @]
           /\ aborts' = [aborts EXCEPT ![f] = IF overdue THEN dc.aborts ELSE @]
           /\ out' = IF overdue THEN <<Ev("dropConnection", 0)>> ELSE << >>
    /\ next_pong_check' = [next_pong_check EXCEPT ![f] = now + PING_INTERVAL]
    /\ last' = Last("_loop_pong_check", f, 0, TRUE, FALSE, FALSE, "")
    /\ UNCHANGED <<cfgVars, extVars, regGhost, nfac, retries, continueTrying, callID, sched, ws,
                   is_first_connect, subscribed_tokens, reactor, ghostVars, now,
                   last_pong_time, next_ping, pongAt>>

\* onClose's callbacks up to the one that raises: on_error (called only for
\* an unclean close) or on_close
CallbacksUntilRaise(was_clean, cb) ==
    IF cb = "on_error" THEN <<Ev("on_error", 0)>>
    ELSE OnCloseCallbacks(was_clean)

\* ClientProtocol.onClose when the application's on_error or on_close
\* raises: the exception leaves onClose at the callback, before lines 96 to
\* 103, so _last_pong_time is kept and neither timer is cancelled.  Whether
\* the transport still tells the connector, and with it the factory, that
\* the connection is lost after its protocol's connectionLost raised is the
\* library's matter: either may happen.
ConnectionLostCallbackRaises(f, was_clean, cb, notified) ==
    /\ LoopRunning
    /\ f <= nfac
    /\ conn[f] \in {"handshake", "open", "closing", "aborted"}
    /\ (conn[f] \in {"handshake", "aborted"} => ~was_clean)
    /\ cb = "on_error" => ~was_clean
    /\ IF notified
       THEN ClientConnectionEnded(f, "clientConnectionLost", ~was_clean,
                                  CallbacksUntilRaise(was_clean, cb))
       ELSE /\ conn' = [conn EXCEPT ![f] = "idle"]
            /\ out' = CallbacksUntilRaise(was_clean, cb)
            /\ last' = Last("onClose", f, retries[f], FALSE, ~was_clean, FALSE,
                            "CallbackError")
            /\ UNCHANGED <<retries, continueTrying, callID, sched, lastAttempt>>
    /\ UNCHANGED <<cfgVars, extVars, regGhost, nfac, ws, is_first_connect,
                   subscribed_tokens, reactor, closeCalled, stopCalled, connectedOnce,
                   kaVars>>

\* ------------------------------------------------------- inbound frames
\* What a frame's payload can be, by how the two parsers take it:
\*   "ticks"     more than 4 bytes, well-formed tick packets, not JSON
\*   "heartbeat" at most 4 bytes, not JSON
\*   "malformed" more than 4 bytes that struct.unpack rejects, not JSON
\*   "order"     a JSON object with truthy "type" and "data"
\*   "object"    a JSON object without them
\*   "scalar"    JSON that is no object, at most 4 bytes (a number)
\* JSON text of more than 4 bytes is no well-formed tick data.
Payloads == {"ticks", "heartbeat", "malformed", "order", "object", "scalar"}

\* len(payload) > 4
LongPayload(p) == p \in {"ticks", "malformed", "order", "object"}

\* VortexFeed._parse_text_message: json.loads, nothing on ValueError; then
\* data.get("type") and data.get("data"), which only an object has
ParseTextMessage(p) ==
    IF p \in {"ticks", "heartbeat", "malformed"} THEN [out |-> << >>, raised |-> ""]
    ELSE IF p = "scalar" THEN [out |-> << >>, raised |-> "AttributeError"]
    ELSE IF p = "order" THEN [out |-> <<Ev("on_order_update", 0)>>, raised |-> ""]
    ELSE [out |-> << >>, raised |-> ""]

\* on_price_update(self, self._parse_binary(payload)): the argument is
\* evaluated first, so a payload struct.unpack rejects raises before the call
PriceUpdate(p) ==
    IF p = "ticks" THEN [out |-> <<Ev("on_price_update", 0)>>, raised |-> ""]
    ELSE [out |-> << >>, raised |-> "struct.error"]

\* _on_message without the raw callback
OnMessageWithoutRaw(is_binary, p) ==
    LET pu == IF is_binary /\ LongPayload(p) THEN PriceUpdate(p)
              ELSE [out |-> << >>, raised |-> ""]
        tx == IF ~is_binary /\ pu.raised = "" THEN ParseTextMessage(p)
              ELSE [out |-> << >>, raised |-> ""]
    IN  [out |-> pu.out \o tx.out,
         raised |-> IF pu.raised # "" THEN pu.raised ELSE tx.raised]

\* VortexFeed._on_message(ws, payload, is_binary), all callbacks registered:
\* on_message(self, payload, is_binary) first; on_price_update for a binary
\* payload of more than 4 bytes; _parse_text_message for a text payload.
\* The on_message event carries is_binary (1 / 0).
OnMessageDispatch(is_binary, p) ==
    LET pu == IF is_binary /\ LongPayload(p) THEN PriceUpdate(p)
              ELSE [out |-> << >>, raised |-> ""]
        tx == IF ~is_binary /\ pu.raised = "" THEN ParseTextMessage(p)
              ELSE [out |-> << >>, raised |-> ""]
    IN  [out |-> <<Ev("on_message", IF is_binary THEN 1 ELSE 0)>> \o pu.out \o tx.out,
         raised |-> IF pu.raised # "" THEN pu.raised ELSE tx.raised]

\* ClientProtocol.onMessage -> factory.on_message = VortexFeed._on_message:
\* a data frame arrives on the open connection
onMessage(f, is_binary, p) ==
    /\ LoopRunning
    /\ f <= nfac
    /\ conn[f] = "open"
    /\ out' = OnMessageDispatch(is_binary, p).out
    /\ last' = Last("onMessage", f, 0, FALSE, FALSE, FALSE,
                    OnMessageDispatch(is_binary, p).raised)
    /\ UNCHANGED <<cfgVars, extVars, regGhost, nfac, facVars, ws, is_first_connect,
                   subscribed_tokens, reactor, ghostVars, kaVars>>

\* ------------------------------------------------------------------ codec
\* packets per sample frame
MaxPackets == 2

\* ---- text frames
\* What json.loads can return, as far as _parse_text_message looks at it:
\* the type and, in v, the truth of a bool, a number's value, or the length
\* of a string, list or object.
JsonValues ==
    {[t |-> "null", v |-> 0], [t |-> "bool", v |-> 0], [t |-> "bool", v |-> 1],
     [t |-> "num", v |-> 0], [t |-> "num", v |-> 7],
     [t |-> "str", v |-> 0], [t |-> "str", v |-> 5],
     [t |-> "list", v |-> 0], [t |-> "list", v |-> 2],
     [t |-> "obj", v |-> 0], [t |-> "obj", v |-> 1]}

JsonNull == [t |-> "null", v |-> 0]

\* Python's truth value: None, False, 0, "", [] and {} are false
Truthy(x) == x.t # "null" /\ x.v # 0

OrderKeys == {"type", "data"}

\* JSON objects with any of the two keys, holding any value
JsonObjects == UNION {[K -> JsonValues] : K \in SUBSET OrderKeys}

\* A text payload: bytes that are or are not UTF-8, that do or do not parse
\* as JSON, and the parsed document: its type and, for an object, its fields.
TextPayload(utf8, wf, top, obj) ==
    [kind |-> "text", utf8 |-> utf8, wf |-> wf, top |-> top, obj |-> obj]

TextPayloads ==
    {TextPayload(FALSE, FALSE, "", EmptyMap), TextPayload(TRUE, FALSE, "", EmptyMap)}
    \cup {TextPayload(TRUE, TRUE, t, EmptyMap) : t \in {"null", "bool", "num", "str", "list"}}
    \cup {TextPayload(TRUE, TRUE, "obj", o) : o \in JsonObjects}

\* dict.get(key): the value, or None
DictGet(d, k) == IF k \in DOMAIN d THEN d[k] ELSE JsonNull

TextResult(forwarded, doc, raised) ==
    [op |-> "_parse_text_message", forwarded |-> forwarded, doc |-> doc,
     raised |-> raised]

\* VortexFeed._parse_text_message with on_order_update registered:
\* payload.decode("utf-8") (outside the try), json.loads with ValueError
\* caught, then data.get("type") and data.get("data") taken by their truth
\* value; only a dict has .get.  on_order_update receives the parsed object.
_parse_text_message(x) ==
    IF ~x.utf8 THEN TextResult(FALSE, EmptyMap, "UnicodeDecodeError")
    ELSE IF ~x.wf THEN TextResult(FALSE, EmptyMap, "")
    ELSE IF x.top # "obj" THEN TextResult(FALSE, EmptyMap, "AttributeError")
    ELSE IF Truthy(DictGet(x.obj, "type")) /\ Truthy(DictGet(x.obj, "data"))
    THEN TextResult(TRUE, x.obj, "")
    ELSE TextResult(FALSE, EmptyMap, "")

\* ---- binary frames: bytes are 0..255, sequences are indexed from 1
\* struct's standard sizes ("<": little-endian, no padding)
FieldSize(c) ==
    CASE c = "7s" -> 7 [] c = "H" -> 2 [] c = "i" -> 4 [] c = "d" -> 8 [] c = "q" -> 8

RECURSIVE CalcSize(_)
CalcSize(fmt) == IF fmt = << >> THEN 0 ELSE FieldSize(Head(fmt)) + CalcSize(Tail(fmt))

\* "<H"
LEUint16(b) == b[1] + 256 * b[2]

\* "<i": two's complement
LEInt32(b) ==
    b[1] + 256 * b[2] + 65536 * b[3]
    + 16777216 * (IF b[4] >= 128 THEN b[4] - 256 ELSE b[4])

\* "<d" and "<q": the value is kept as its bit pattern, most significant
\* byte first (the IEEE-754 pattern of a double, the two's complement of an
\* int64)
BitPattern(b) == [i \in 1..Len(b) |-> b[Len(b) + 1 - i]]

FieldValue(c, b) ==
    CASE c = "7s" -> b [] c = "H" -> LEUint16(b) [] c = "i" -> LEInt32(b)
      [] c = "d" -> BitPattern(b) [] c = "q" -> BitPattern(b)

RECURSIVE UnpackFrom(_, _, _)
UnpackFrom(fmt, b, j) ==
    IF fmt = << >> THEN << >>
    ELSE <<FieldValue(Head(fmt), SubSeq(b, j + 1, j + FieldSize(Head(fmt))))>>
         \o UnpackFrom(Tail(fmt), b, j + FieldSize(Head(fmt)))

\* struct.unpack(format, buffer): struct.error unless the buffer has exactly
\* the format's size
Unpack(fmt, b) ==
    IF Len(b) # CalcSize(fmt) THEN [v |-> << >>, raised |-> "struct.error"]
    ELSE [v |-> UnpackFrom(fmt, b, 0), raised |-> ""]

\* the second format with an int64 trade time: 63 bytes
FormatOhlcvInt64Time == <<"7s", "i", "d", "q", "d", "d", "d", "d", "i">>

\* the three format strings of _parse_binary
FormatLtp == <<"7s", "i", "d">>

FormatOhlcv == <<"7s", "i", "d", "i", "d", "d", "d", "d", "i">>
FormatFull ==
    <<"7s", "i", "i", "i", "d", "i", "i", "d", "q", "q", "i", "d",
      "d", "d", "d", "d", "i", "i", "d", "i", "i", "d", "i", "i",
      "d", "i", "i", "d", "i", "i", "d", "i", "i", "d", "i", "i",
      "d", "i", "i", "d", "i", "i", "d", "i", "i", "i", "i">>

\* bytes.decode("utf-8") succeeds on ASCII; of the other bytes the payloads
\* here only use 0xFF, which no UTF-8 text contains
Utf8Ok(b) == \A i \in 1..Len(b) : b[i] < 128

\* rstrip without the loop: nothing is trimmed
RStripNothing(s) == s

\* str.rstrip('\x00')
RECURSIVE RStripNull(_)
RStripNull(s) ==
    IF s = << >> \/ s[Len(s)] # 0 THEN s ELSE RStripNull(SubSeq(s, 1, Len(s) - 1))

NoTick == [ticks |-> << >>, raised |-> ""]

\* _parse_binary, the body of its loop for one packet: by length, unpack,
\* decode and trim the exchange, build the tick
DecodePacket(p) ==
    IF Len(p) = 19
    THEN LET u == Unpack(FormatLtp, p)
         IN  IF u.raised # "" THEN [ticks |-> << >>, raised |-> u.raised]
             ELSE IF ~Utf8Ok(u.v[1]) THEN [ticks |-> << >>, raised |-> "UnicodeDecodeError"]
             ELSE [ticks |-> <<[exchange |-> RStripNull(u.v[1]), token |-> u.v[2],
                                last_trade_price |-> u.v[3]]>>,
                   raised |-> ""]
    ELSE IF Len(p) = 59
    THEN LET u == Unpack(FormatOhlcv, p)
         IN  IF u.raised # "" THEN [ticks |-> << >>, raised |-> u.raised]
             ELSE IF ~Utf8Ok(u.v[1]) THEN [ticks |-> << >>, raised |-> "UnicodeDecodeError"]
             ELSE [ticks |-> <<[exchange |-> RStripNull(u.v[1]), token |-> u.v[2],
                                last_trade_price |-> u.v[3], last_trade_time |-> u.v[4],
                                open_price |-> u.v[5], high_price |-> u.v[6],
                                low_price |-> u.v[7], close_price |-> u.v[8],
                                volume |-> u.v[9]]>>,
                   raised |-> ""]
    ELSE IF Len(p) = 263
    THEN LET r == Unpack(FormatFull, p)
             u == r.v
         IN  IF r.raised # "" THEN [ticks |-> << >>, raised |-> r.raised]
             ELSE IF ~Utf8Ok(u[1]) THEN [ticks |-> << >>, raised |-> "UnicodeDecodeError"]
             ELSE [ticks |-> <<[exchange |-> RStripNull(u[1]), token |-> u[2],
                                last_trade_time |-> u[3], last_update_time |-> u[4],
                                last_trade_price |-> u[5], last_trade_quantity |-> u[6],
                                volume |-> u[7], average_trade_price |-> u[8],
                                total_buy_quantity |-> u[9], total_sell_quantity |-> u[10],
                                open_interest |-> u[11], open_price |-> u[12],
                                high_price |-> u[13], low_price |-> u[14],
                                close_price |-> u[15],
                                depth |-> [buy |-> <<
              [price |-> u[16], quantity |-> u[17], orders |-> u[18]],
              [price |-> u[19], quantity |-> u[20], orders |-> u[21]],
              [price |-> u[22], quantity |-> u[23], orders |-> u[24]],
              [price |-> u[25], quantity |-> u[26], orders |-> u[27]],
              [price |-> u[28], quantity |-> u[29], orders |-> u[30]]>>,
                                           sell |-> <<
              [price |-> u[31], quantity |-> u[32], orders |-> u[33]],
              [price |-> u[34], quantity |-> u[35], orders |-> u[36]],
              [price |-> u[37], quantity |-> u[38], orders |-> u[39]],
              [price |-> u[40], quantity |-> u[41], orders |-> u[42]],
              [price |-> u[43], quantity |-> u[44], orders |-> u[45]]>>]]>>,
                   raised |-> ""]
    ELSE NoTick

\* _unpack_int(bin, start, end), byte_format "H": bin[start:end] must be the
\* two bytes the format needs
_unpack_int(bin, start, end) ==
    IF end > Len(bin) \/ end - start # 2 THEN [v |-> 0, raised |-> "struct.error"]
    ELSE [v |-> LEUint16(SubSeq(bin, start + 1, end)), raised |-> ""]

\* the smaller of two numbers
Min(a, b) == IF a < b THEN a ELSE b

\* _split_packets' loop from offset j with n packets to go: the length at
\* j, the slice bin[j + 2 : j + 2 + length] (a slice past the end is cut
\* short, not an error), on to the next
RECURSIVE SplitFrom(_, _, _)
SplitFrom(bin, j, n) ==
    IF n = 0 THEN [packets |-> << >>, raised |-> ""]
    ELSE LET pl == _unpack_int(bin, j, j + 2)
         IN  IF pl.raised # "" THEN [packets |-> << >>, raised |-> pl.raised]
             ELSE LET rest == SplitFrom(bin, j + 2 + pl.v, n - 1)
                  IN  IF rest.raised # ""
                      THEN [packets |-> << >>, raised |-> rest.raised]
                      ELSE [packets |->
                                <<SubSeq(bin, j + 3, Min(j + 2 + pl.v, Len(bin)))>>
                                \o rest.packets,
                            raised |-> ""]

\* the split that takes every length-prefixed slice from the frame's start
SplitFromStart(bin) ==
    IF Len(bin) < 2 THEN [packets |-> << >>, raised |-> ""]
    ELSE SplitFrom(bin, 0, _unpack_int(bin, 0, 2).v)

\* VortexFeed._split_packets: nothing for a frame shorter than 2 bytes, else
\* the packet count, then the packets from offset 2
_split_packets(bin) ==
    IF Len(bin) < 2 THEN [packets |-> << >>, raised |-> ""]
    ELSE SplitFrom(bin, 2, _unpack_int(bin, 0, 2).v)

\* the loop that ends at the first packet of an unknown length
RECURSIVE ParsePacketsUntilUnknown(_)
ParsePacketsUntilUnknown(ps) ==
    IF ps = << >> THEN NoTick
    ELSE LET d == DecodePacket(Head(ps))
         IN  IF d.raised # "" THEN [ticks |-> << >>, raised |-> d.raised]
             ELSE IF d.ticks = << >> THEN NoTick
             ELSE LET rest == ParsePacketsUntilUnknown(Tail(ps))
                  IN  IF rest.raised # "" THEN [ticks |-> << >>, raised |-> rest.raised]
                      ELSE [ticks |-> d.ticks \o rest.ticks, raised |-> ""]

\* the loop of _parse_binary over the packets, in order, up to the first
\* exception
RECURSIVE ParsePackets(_)
ParsePackets(ps) ==
    IF ps = << >> THEN NoTick
    ELSE LET d == DecodePacket(Head(ps))
         IN  IF d.raised # "" THEN [ticks |-> << >>, raised |-> d.raised]
             ELSE LET rest == ParsePackets(Tail(ps))
                  IN  IF rest.raised # "" THEN [ticks |-> << >>, raised |-> rest.raised]
                      ELSE [ticks |-> d.ticks \o rest.ticks, raised |-> ""]

\* VortexFeed._parse_binary
_parse_binary(bin) ==
    LET sp == _split_packets(bin)
    IN  IF sp.raised # "" THEN [ticks |-> << >>, raised |-> sp.raised]
        ELSE ParsePackets(sp.packets)

\* ---- sample payloads
\* "NSE_EQ" and one null byte
ExchangeNseEq == <<78, 83, 69, 95, 69, 81, 0>>
\* "MCX" and four null bytes
ExchangeMcx == <<77, 67, 88, 0, 0, 0, 0>>

\* struct.pack("<7sid", b"NSE_EQ", 22, 1700.5)
PacketLtp == ExchangeNseEq \o <<22, 0, 0, 0>> \o <<0, 0, 0, 0, 0, 146, 154, 64>>
\* struct.pack("<7sid", b"MCX", -2, 0.5)
PacketLtpMcx == ExchangeMcx \o <<254, 255, 255, 255>> \o <<0, 0, 0, 0, 0, 0, 224, 63>>
\* struct.pack("<7sididdddi", b"NSE_EQ", 26, 2.0, 1700000000, 1.0, 3.0, 0.5, 1.5, 1000)
PacketOhlcv ==
    <<78, 83, 69, 95, 69, 81, 0, 26, 0, 0, 0, 0, 0, 0, 0, 0,
      0, 0, 64, 0, 241, 83, 101, 0, 0, 0, 0, 0, 0, 240, 63, 0,
      0, 0, 0, 0, 0, 8, 64, 0, 0, 0, 0, 0, 0, 224, 63, 0,
      0, 0, 0, 0, 0, 248, 63, 232, 3, 0, 0>>
\* a full-depth packet: the exchange and 256 more bytes
PacketFull == ExchangeNseEq \o [i \in 1..256 |-> i % 128]
\* a packet of none of the three lengths
PacketUnknown == <<1, 2, 3, 4, 5>>

SamplePackets == {PacketLtp, PacketLtpMcx, PacketOhlcv, PacketFull, PacketUnknown, << >>}

RECURSIVE Concat(_)
Concat(ss) == IF ss = << >> THEN << >> ELSE Head(ss) \o Concat(Tail(ss))

\* uint16, little-endian
Uint16LE(n) == <<n % 256, n \div 256>>

\* The frame the server builds from a list of packets, in the layout
\* _split_packets reads: the count, then each packet behind its length.
Frame(ps) ==
    Uint16LE(Len(ps)) \o Concat([i \in 1..Len(ps) |-> Uint16LE(Len(ps[i])) \o ps[i]])

\* lists of up to MaxPackets sample packets
PacketLists == UNION {[1..n -> SamplePackets] : n \in 0..MaxPackets}

\* a frame whose count declares one packet more than it holds
CountPastEnd(ps) == Uint16LE(Len(ps) + 1) \o SubSeq(Frame(ps), 3, Len(Frame(ps)))

\* a frame that ends one byte short of its last packet's declared length
LengthPastEnd(ps) == SubSeq(Frame(ps), 1, Len(Frame(ps)) - 1)

\* binary payloads: frames built from up to MaxPackets sample packets, raw
\* byte strings of up to 2 bytes, and malformed frames: a count or a length
\* that runs past the end of the frame
BinaryPayloads ==
    {[kind |-> "binary", built |-> TRUE, packets |-> ps, bytes |-> Frame(ps)] :
        ps \in PacketLists}
    \cup {[kind |-> "binary", built |-> FALSE, packets |-> << >>, bytes |-> b] :
             b \in UNION {[1..n -> {0, 1, 255}] : n \in 0..2}}
    \cup {[kind |-> "binary", built |-> FALSE, packets |-> ps, bytes |-> CountPastEnd(ps)] :
             ps \in PacketLists}
    \cup {[kind |-> "binary", built |-> FALSE, packets |-> ps, bytes |-> LengthPastEnd(ps)] :
             ps \in {qs \in PacketLists : Len(qs) > 0 /\ qs[Len(qs)] # << >>}}

\* ---- the parsers applied
CodecIdle ==
    UNCHANGED <<cfgVars, nfac, facVars, ws, is_first_connect, subscribed_tokens,
                reactor, last, out, ghostVars, kaVars, regGhost, openVars, thrVars,
                input>>

DecodeText ==
    /\ input.kind = "text"
    /\ result.op = ""
    /\ result' = _parse_text_message(input)
    /\ CodecIdle

SplitPackets ==
    /\ input.kind = "binary"
    /\ result.op = ""
    /\ result' = [op |-> "_split_packets",
                  packets |-> _split_packets(input.bytes).packets,
                  raised |-> _split_packets(input.bytes).raised]
    /\ CodecIdle

\* VortexFeed._on_message for a binary frame, on_price_update registered:
\* a payload of more than 4 bytes goes through _parse_binary and its ticks
\* to on_price_update; a shorter one is left alone.  Nothing catches what
\* _parse_binary raises.
OnBinaryFrame ==
    /\ input.kind = "binary"
    /\ result.op = ""
    /\ result' = IF Len(input.bytes) > 4
                 THEN [op |-> "_on_message",
                       delivered |-> _parse_binary(input.bytes).raised = "",
                       ticks |-> _parse_binary(input.bytes).ticks,
                       raised |-> _parse_binary(input.bytes).raised]
                 ELSE [op |-> "_on_message", delivered |-> FALSE, ticks |-> << >>,
                       raised |-> ""]
    /\ CodecIdle

ParseBinary ==
    /\ input.kind = "binary"
    /\ result.op = ""
    /\ result' = [op |-> "_parse_binary",
                  ticks |-> _parse_binary(input.bytes).ticks,
                  raised |-> _parse_binary(input.bytes).raised]
    /\ CodecIdle

\* ------------------------------------------------------------ specification
Next ==
    \/ connect
    \/ close
    \/ stop
    \/ \E e \in Exchanges, t \in Tokens, m \in Modes, sr \in BOOLEAN :
          subscribe(e, t, m, sr) /\ UNCHANGED regGhost
    \/ \E e \in Exchanges, t \in Tokens, sr \in BOOLEAN :
          unsubscribe(e, t, sr) /\ UNCHANGED regGhost
    \/ \E f \in FacIds : ConnectFailed(f)
    \/ \E f \in FacIds : TransportConnected(f)
    \/ \E f \in FacIds : HandshakeOk(f)
    \/ \E f \in FacIds, was_clean \in BOOLEAN : ConnectionLost(f, was_clean)
    \/ \E f \in FacIds : Reconnector(f)

Spec == Init /\ [][Next]_vars

\* The session as its application subscribes and unsubscribes several tokens
\* while connections come and go; the calls are logged.
SubscribeLogged(e, t, m, send_raises) ==
    /\ subscribe(e, t, m, send_raises)
    /\ sendFailed' = (sendFailed \/ last'.raised # "")
    /\ callLog' = IF sendFailed' THEN NoCalls ELSE [callLog EXCEPT ![<<e, t>>] = m]
    /\ failedSub' = IF last'.raised # "" THEN {<<e, t, m>>} ELSE failedSub

UnsubscribeLogged(e, t, send_raises) ==
    /\ unsubscribe(e, t, send_raises)
    /\ sendFailed' = (sendFailed \/ last'.raised # "")
    /\ callLog' = IF sendFailed' THEN NoCalls
                  ELSE [callLog EXCEPT ![<<e, t>>] = "unsubscribe"]
    /\ UNCHANGED failedSub

NextRegistry ==
    \/ connect
    \/ close
    \/ \E e \in Exchanges, t \in TokensRegistry, m \in Modes, sr \in BOOLEAN :
          SubscribeLogged(e, t, m, sr)
    \/ \E e \in Exchanges, t \in TokensRegistry, sr \in BOOLEAN :
          UnsubscribeLogged(e, t, sr)
    \/ \E f \in FacIds : TransportConnected(f)
    \/ \E f \in FacIds : HandshakeOk(f)
    \/ \E f \in FacIds, was_clean \in BOOLEAN : ConnectionLost(f, was_clean)
    \/ \E f \in FacIds : Reconnector(f)

SpecRegistry == Init /\ [][NextRegistry]_vars

\* The session receiving frames on its connections.
NextMessages ==
    \/ connect
    \/ close
    \/ \E f \in FacIds : ConnectFailed(f)
    \/ \E f \in FacIds : TransportConnected(f)
    \/ \E f \in FacIds : HandshakeOk(f)
    \/ \E f \in FacIds, was_clean \in BOOLEAN : ConnectionLost(f, was_clean)
    \/ \E f \in FacIds : Reconnector(f)
    \/ \E f \in FacIds, is_binary \in BOOLEAN, p \in Payloads : onMessage(f, is_binary, p)

SpecMessages == Init /\ [][NextMessages]_vars

\* One payload, text or binary, handed to a parser of a session as built
\* with the default arguments.
InitCodec ==
    /\ reconnect_max_tries = InitMaxTries(TRUE, RECONNECT_MAX_TRIES)
    /\ reconnect_max_delay = InitMaxDelay(RECONNECT_MAX_DELAY)
    /\ ctorArgs = NoArgs
    /\ debug = TRUE
    /\ SessionFields
    /\ (input \in TextPayloads \/ input \in BinaryPayloads)
    /\ result = NoResult

NextCodec ==
    \/ DecodeText
    \/ SplitPackets
    \/ ParseBinary
    \/ OnBinaryFrame

SpecCodec == InitCodec /\ [][NextCodec]_vars

\* The arguments __init__ is given: ceilings below, at and above the cap,
\* delays below, at and above zero.
TriesRequested ==
    {0 - 1, 0, 1, RECONNECT_MAX_TRIES - 1, RECONNECT_MAX_TRIES,
     RECONNECT_MAX_TRIES + 1, 2 * RECONNECT_MAX_TRIES}

DelaysRequested == {0 - 1, 0, 1, RECONNECT_MAX_DELAY}

\* __init__ with any of these arguments, the arguments kept on record
InitConstruction ==
    /\ \E reconnect \in BOOLEAN, tries \in TriesRequested, delay \in DelaysRequested :
          /\ reconnect_max_tries = InitMaxTries(reconnect, tries)
          /\ reconnect_max_delay = InitMaxDelay(delay)
          /\ ctorArgs = [reconnect |-> reconnect, tries |-> tries, delay |-> delay,
                         recorded |-> TRUE]
    /\ debug = TRUE
    /\ SessionFields
    /\ input = NoInput
    /\ result = NoResult

\* The session built with any arguments, connecting to a server that refuses
\* every attempt, and asked for its state or closed at any time.
NextConstruction ==
    \/ connect
    \/ close
    \/ IsConnected
    \/ \E f \in FacIds : ConnectFailed(f)
    \/ \E f \in FacIds : Reconnector(f)

SpecConstruction == InitConstruction /\ [][NextConstruction]_vars

\* The session with its threads.  The loop runs its handlers one at a time,
\* on the worker when connect was called with threaded=True, else inside
\* connect on the caller's thread, so that the application calls the API
\* from callbacks, between handlers.  With the loop on the worker the
\* caller's thread runs beside it and nothing in subscribe, unsubscribe or
\* resubscribe takes a lock: a call may run while a handler is inside its
\* resubscribe pass.
CallerMayRun == pass = 0 \/ loopThread = "worker"

InitThreads ==
    /\ reconnect_max_tries = InitMaxTries(TRUE, 1)
    /\ reconnect_max_delay = InitMaxDelay(RECONNECT_MAX_DELAY)
    /\ ctorArgs = NoArgs
    /\ debug = FALSE
    /\ SessionFields
    /\ input = NoInput
    /\ result = NoResult

NextThreads ==
    \/ \E th \in BOOLEAN : pass = 0 /\ connectIn(th)
    \/ \E th \in BOOLEAN : pass = 0 /\ connectAgain(th)
    \/ pass = 0 /\ close
    \/ pass = 0 /\ stop
    \/ \E e \in Exchanges, t \in Tokens, sr \in BOOLEAN :
          CallerMayRun /\ subscribe(e, t, "full", sr) /\ UNCHANGED regGhost
    \/ \E e \in Exchanges, t \in Tokens, sr \in BOOLEAN :
          CallerMayRun /\ unsubscribe(e, t, sr) /\ UNCHANGED regGhost
    \/ \E f \in FacIds : pass = 0 /\ TransportConnected(f)
    \/ \E f \in FacIds : PassBegin(f)
    \/ \E f \in FacIds : (IF ResubscribeDue THEN pass = f ELSE pass = 0) /\ HandshakeOk(f)
    \/ \E f \in FacIds, was_clean \in BOOLEAN : pass = 0 /\ ConnectionLost(f, was_clean)
    \/ \E f \in FacIds : pass = 0 /\ Reconnector(f)

SpecThreads == InitThreads /\ [][NextThreads]_vars

\* The session with its clock running: connections come and go while time
\* passes, pongs arrive and the keepalive timers fire.
NextKeepalive ==
    \/ connect
    \/ close
    \/ Tick
    \/ \E f \in FacIds : ConnectFailed(f)
    \/ \E f \in FacIds : TransportConnected(f)
    \/ \E f \in FacIds : HandshakeOk(f)
    \/ \E f \in FacIds, was_clean \in BOOLEAN : ConnectionLost(f, was_clean)
    \/ \E f \in FacIds : Reconnector(f)
    \/ \E f \in FacIds : onPong(f)
    \/ \E f \in FacIds : _loop_ping(f)
    \/ \E f \in FacIds : _loop_pong_check(f)

SpecKeepalive == Init /\ [][NextKeepalive]_vars

\* The keepalive with application callbacks that may raise in onClose.
NextCallbacks ==
    \/ connect
    \/ Tick
    \/ \E f \in FacIds : TransportConnected(f)
    \/ \E f \in FacIds : HandshakeOk(f)
    \/ \E f \in FacIds, was_clean \in BOOLEAN : ConnectionLost(f, was_clean)
    \/ \E f \in FacIds, was_clean \in BOOLEAN, cb \in {"on_error", "on_close"},
          notified \in BOOLEAN : ConnectionLostCallbackRaises(f, was_clean, cb, notified)
    \/ \E f \in FacIds : Reconnector(f)
    \/ \E f \in FacIds : onPong(f)
    \/ \E f \in FacIds : _loop_ping(f)
    \/ \E f \in FacIds : _loop_pong_check(f)

SpecCallbacks == InitThreads /\ [][NextCallbacks]_vars

\* ------------------------------------------------------------------ claims
FailureOps == {"clientConnectionFailed", "clientConnectionLost"}

\* the handler that ran last was an abnormal close of a factory that had
\* connected successfully before
AbnormalCloseAfterConnect(l, f) ==
    l.op = "clientConnectionLost" /\ l.fac = f /\ l.abnormal /\ connectedOnce[f]

\* C1: after a successful connection and with a ceiling of at least 3, each
\* of 3 consecutive abnormal closes emits exactly one on_reconnect, and the
\* attempt count it carries is larger than the one emitted before it.
C1_AbnormalCloseNotifiesOnce ==
    [][\A f \in FacIds :
          (AbnormalCloseAfterConnect(last', f) /\ MaxRetries(f) >= 3 /\ last'.n < 3)
          => /\ Count(out', "on_reconnect") = 1
             /\ \A i \in 1..Len(out') :
                   out'[i].ev = "on_reconnect" => out'[i].n > lastAttempt[f]]_vars

\* the subscribe control messages in a handler's output
SubscribesIn(s) == {i \in 1..Len(s) : s[i].ev = "subscribe"}

\* C2: an open that is not the session's first sends exactly one subscribe
\* message per registry entry, with the recorded mode, and on_open is invoked
\* after all of them.
C2_ReopenReplaysRegistryThenOnOpen ==
    (last.op = "onOpen" /\ ~last.first)
    => /\ Len(out) > 0 /\ out[Len(out)].ev = "on_open"
       /\ Cardinality(SubscribesIn(out)) = Cardinality(Entries(subscribed_tokens))
       /\ \A x \in Entries(subscribed_tokens) :
             \E i \in SubscribesIn(out) :
                out[i].ex = x[1] /\ out[i].tok = x[2] /\ out[i].mode = x[3]

\* C3: with a ceiling of 0 the first abnormal close schedules no retry,
\* leaves the session stopped, emits on_noreconnect and no on_reconnect.
C3_ZeroCeilingFirstCloseGivesUp ==
    \A f \in FacIds :
       (AbnormalCloseAfterConnect(last, f) /\ MaxRetries(f) = 0 /\ last.n = 0
        /\ ~closeCalled[f])
       => /\ ~last.scheduled /\ ~callID[f] /\ conn[f] = "idle"
          /\ Emitted(out, "on_noreconnect")
          /\ ~Emitted(out, "on_reconnect")

\* C4: the retries scheduled since the last successful connect never exceed
\* the ceiling, and once the counter exceeds it no timer is pending and no
\* attempt is in flight.
C4_ScheduledRetriesWithinCeiling ==
    \A f \in FacIds :
       /\ sched[f] <= MaxRetries(f)
       /\ retries[f] > MaxRetries(f) => (~callID[f] /\ conn[f] = "idle")

C4_Witness ==
    \E f \in FacIds :
       /\ MaxRetries(f) >= 2
       /\ sched[f] = MaxRetries(f)
       /\ retries[f] > MaxRetries(f)
       /\ last.op \in FailureOps

\* C5: the failure that takes the counter over the ceiling emits
\* on_noreconnect (debug on or off), and while the counter is over the
\* ceiling the factory has no timer and no attempt.
C5_ExhaustionNotifiesAndStops ==
    \A f \in FacIds :
       /\ (last.op \in FailureOps /\ last.fac = f /\ last.n <= MaxRetries(f)
           /\ retries[f] > MaxRetries(f))
          => Emitted(out, "on_noreconnect")
       /\ retries[f] > MaxRetries(f) => (~callID[f] /\ conn[f] = "idle")

\* C6: a failure that schedules a retry has emitted on_reconnect for it.
C6_ScheduledRetryIsAnnounced ==
    (last.op \in FailureOps /\ last.scheduled) => Emitted(out, "on_reconnect")

\* C7: one failure never emits both notifications: the one that exceeds the
\* ceiling emits no on_reconnect, the one that schedules a retry emits no
\* on_noreconnect.
C7_NotificationsExclusive ==
    \A f \in FacIds :
       (last.op \in FailureOps /\ last.fac = f)
       => /\ ~(Emitted(out, "on_reconnect") /\ Emitted(out, "on_noreconnect"))
          /\ (last.n <= MaxRetries(f) /\ retries[f] > MaxRetries(f))
             => ~Emitted(out, "on_reconnect")
          /\ last.scheduled => ~Emitted(out, "on_noreconnect")

\* C8: whenever a factory's connection is open its retry counter is 0.
C8_OpenImpliesRetriesZero ==
    \A f \in FacIds : conn[f] = "open" => retries[f] = 0

C8_Witness ==
    \E f \in FacIds :
       conn[f] = "open" /\ last.op = "onOpen" /\ last.fac = f /\ last.n > 0

\* C9: once close() was called, its factory has no pending retry timer, and
\* no later event sets one or starts a connection attempt.
C9_CloseEndsReconnection ==
    [][\A f \in FacIds :
          /\ (last'.op = "close" /\ closeCalled'[f]) => ~callID'[f]
          /\ (closeCalled[f] /\ closeCalled'[f])
             => /\ callID'[f] => callID[f]
                /\ conn'[f] = "connecting" => conn[f] = "connecting"]_vars

TimersPending(f) ==
    callID[f] \/ next_ping[f] # None \/ next_pong_check[f] # None

\* C11: once close() or stop() has completed, no ping timer, no pong-check
\* timer and no retry timer remains scheduled.
C11_CloseStopCancelAllTimers ==
    (last.op \in {"close", "stop"} /\ last.raised = "")
    => \A f \in FacIds : ~TimersPending(f)

\* the liveness check of f's protocol has just run
PongCheckRan(l, f) == l.op = "_loop_pong_check" /\ l.fac = f

\* C12: a liveness check that finds the last pong of the connection more
\* than 2 * PING_INTERVAL old aborts the connection, and no connection is
\* aborted more than once.
C12_OverdueAbortsExactlyOnce ==
    [][\A f \in FacIds :
          /\ aborts'[f] <= 1
          /\ (PongCheckRan(last', f) /\ next_pong_check'[f] # next_pong_check[f]
              /\ pongAt[f] # None /\ now - pongAt[f] > 2 * PING_INTERVAL)
             => aborts'[f] = 1 /\ conn'[f] = "aborted"]_vars

C12_Witness ==
    \E f \in FacIds :
       /\ PongCheckRan(last, f) /\ Emitted(out, "dropConnection")
       /\ aborts[f] = 1 /\ conn[f] = "aborted"
       /\ pongAt[f] # None /\ now - pongAt[f] > 2 * PING_INTERVAL

EntriesOf(reg, p) == {x \in Entries(reg) : x[1] = p[1] /\ x[2] = p[2]}

\* C14: while every subscribe / unsubscribe send has succeeded, each pair
\* has at most one registry entry, it has one exactly when the last call on
\* it was a subscribe, and the entry's mode is that subscribe's mode.
C14_RegistryFollowsLastCall ==
    ~sendFailed
    => \A p \in Pairs :
          /\ Cardinality(EntriesOf(subscribed_tokens, p)) <= 1
          /\ (EntriesOf(subscribed_tokens, p) # {}) <=> (callLog[p] \in Modes)
          /\ \A x \in EntriesOf(subscribed_tokens, p) : x[3] = callLog[p]

C14_Witness ==
    /\ ~sendFailed
    /\ last.op = "subscribe"
    /\ callLog[<<"NSE_EQ", 22>>] = "full"
    /\ callLog[<<"NSE_EQ", 26>>] = "unsubscribe"
    /\ Entries(subscribed_tokens) = {<<"NSE_EQ", 22, "full">>}

\* C15: when every pair that was subscribed has been unsubscribed again,
\* the registry is the one of a session that never subscribed.
C15_SubscribeUnsubscribeRestoresEmpty ==
    (~sendFailed /\ \A p \in Pairs : callLog[p] \notin Modes)
    => subscribed_tokens = EmptyMap

\* C16: a re-open sends a subscribe message, with its mode, for the
\* subscribe call that failed before it.
C16_FailedSubscribeReplayedOnReopen ==
    [][(last'.op = "onOpen" /\ ~last'.first)
       => \A x \in failedSub :
             \E i \in SubscribesIn(out') :
                out'[i].ex = x[1] /\ out'[i].tok = x[2] /\ out'[i].mode = x[3]]_vars

\* C17: after unsubscribe(exchange, token), raised or not, the registry has
\* no entry for the token.
C17_UnsubscribeAlwaysRemoves ==
    last.op = "unsubscribe"
    => \A x \in Entries(subscribed_tokens) : x[2] # last.n

\* C18: a subscribe / unsubscribe whose send raised has called _close and
\* left with the exception; one whose send did not raise has not called
\* _close and returned True.
C18_SendErrorClosesAndRaises ==
    last.op \in {"subscribe", "unsubscribe"}
    => (last.raised # "" <=> Emitted(out, "_close"))

C18_Witness ==
    /\ last.op = "unsubscribe" /\ last.raised = "Disconnected"
    /\ Emitted(out, "_close")
    /\ ws # 0 /\ Entries(subscribed_tokens) # {}

\* C19: is_connected() is true only while the connection of the session's
\* current factory is open: not while it is connecting or in the opening
\* handshake, closing or closed, waiting for a retry, or out of retries.
C19_ConnectedOnlyWhileOpen ==
    /\ is_connected => (nfac > 0 /\ conn[nfac] = "open")
    /\ \A f \in FacIds :
          (f = nfac /\ (\/ conn[f] \in {"connecting", "handshake", "closing", "idle"}
                        \/ callID[f]
                        \/ retries[f] > MaxRetries(f)))
          => ~is_connected

\* the handle is that of a lost connection, and a retry is pending
C19_Witness ==
    /\ ~is_connected
    /\ ws # 0 /\ ws = nfac /\ callID[ws]
    /\ last.op = "clientConnectionLost"

\* C20: every inbound frame invokes on_message, once and first; only a
\* binary frame invokes on_price_update, only a text frame invokes
\* on_order_update, and no frame invokes both.
C20_FrameDispatch ==
    last.op = "onMessage"
    => /\ Count(out, "on_message") = 1
       /\ out[1].ev = "on_message"
       /\ Emitted(out, "on_price_update") => out[1].n = 1
       /\ Emitted(out, "on_order_update") => out[1].n = 0
       /\ ~(Emitted(out, "on_price_update") /\ Emitted(out, "on_order_update"))

C20_Witness ==
    /\ last.op = "onMessage"
    /\ Emitted(out, "on_order_update")
    /\ out[1].ev = "on_message" /\ out[1].n = 0

\* ------------------------------------------------------------------ codec
\* the payload is a JSON object with a "type" and a "data" field
HasBothFields(x) ==
    x.utf8 /\ x.wf /\ x.top = "obj" /\ OrderKeys \subseteq DOMAIN x.obj

\* C21: a text frame reaches on_order_update, with the parsed object
\* unchanged, exactly when it is a JSON object holding both a "type" and a
\* "data" field, whatever their values; any other text frame is dropped.
C21_ForwardedIffBothFields ==
    result.op = "_parse_text_message" =>
        /\ result.forwarded <=> HasBothFields(input)
        /\ result.forwarded => result.doc = input.obj

\* C22: decoding a text frame never raises, whatever the payload: invalid
\* UTF-8, malformed JSON, JSON that is not an object, an object without the
\* fields.
C22_DecodeTextNeverRaises ==
    result.op = "_parse_text_message" => result.raised = ""

KnownLengths == {19, 59, 263}

IsKnownLength(p) == Len(p) \in KnownLengths

\* C23: for a frame built from packets, the ticks are, in frame order, one
\* per packet of length 19, 59 or 263; packets of other lengths give no
\* tick, raise nothing and do not end the decoding.
C23_OneTickPerKnownPacket ==
    (result.op = "_parse_binary" /\ input.built) =>
        LET kept == SelectSeq(input.packets, IsKnownLength)
        IN  /\ result.raised = ""
            /\ Len(result.ticks) = Len(kept)
            /\ \A k \in 1..Len(kept) :
                   /\ DecodePacket(kept[k]).raised = ""
                   /\ <<result.ticks[k]>> = DecodePacket(kept[k]).ticks

\* a packet of an unknown length ahead of a known one, both decoded past
C23_Witness ==
    /\ result.op = "_parse_binary"
    /\ input.built
    /\ input.packets = <<PacketUnknown, PacketLtp>>
    /\ Len(result.ticks) = 1
    /\ result.ticks[1].token = 22

\* C24: a frame of 0 or 1 bytes splits into nothing; a frame built as count,
\* then length and bytes per packet, splits into exactly those packets: the
\* declared number, each of its declared length, bytes in order.
C24_SplitReturnsDeclaredPackets ==
    result.op = "_split_packets" =>
        /\ Len(input.bytes) < 2 => (result.packets = << >> /\ result.raised = "")
        /\ input.built =>
               /\ result.raised = ""
               /\ Len(result.packets) = LEUint16(SubSeq(input.bytes, 1, 2))
               /\ result.packets = input.packets

C24_Witness ==
    /\ result.op = "_split_packets"
    /\ input.built
    /\ Len(result.packets) = 2
    /\ result.packets[1] = PacketLtp
    /\ result.packets[2] = PacketUnknown

\* the bytes of a packet's exchange field up to its last non-null byte
TrimmedExchange(p) ==
    CHOOSE e \in {SubSeq(p, 1, n) : n \in 0..7} :
        /\ Len(e) = 0 \/ e[Len(e)] # 0
        /\ \A i \in (Len(e) + 1)..7 : p[i] = 0

\* C25: a 19-byte packet decodes to the tick whose exchange is bytes 0..6
\* without the trailing null bytes, whose token is the little-endian int32
\* of bytes 7..10 and whose last_trade_price is the little-endian double of
\* bytes 11..18; "NSE_EQ\0", 22, 1700.5 gives NSE_EQ, 22, 1700.5 (the
\* double 1700.5 is 0x409A920000000000).
C25_LtpPacketLayout ==
    (result.op = "_parse_binary" /\ input.built /\ Len(input.packets) = 1
     /\ Len(input.packets[1]) = 19) =>
        LET p == input.packets[1]
        IN  /\ result.raised = ""
            /\ Len(result.ticks) = 1
            /\ DOMAIN result.ticks[1] = {"exchange", "token", "last_trade_price"}
            /\ result.ticks[1].exchange = TrimmedExchange(p)
            /\ result.ticks[1].token = LEInt32(SubSeq(p, 8, 11))
            /\ result.ticks[1].last_trade_price = BitPattern(SubSeq(p, 12, 19))
            /\ p = PacketLtp =>
                   result.ticks[1] =
                       [exchange |-> <<78, 83, 69, 95, 69, 81>>, token |-> 22,
                        last_trade_price |-> <<64, 154, 146, 0, 0, 0, 0, 0>>]
            /\ p = PacketLtpMcx =>
                   result.ticks[1] =
                       [exchange |-> <<77, 67, 88>>, token |-> 0 - 2,
                        last_trade_price |-> <<63, 224, 0, 0, 0, 0, 0, 0>>]

C25_Witness ==
    /\ result.op = "_parse_binary"
    /\ input.built
    /\ input.packets = <<PacketLtp>>
    /\ Len(result.ticks) = 1
    /\ result.ticks[1].token = 22

\* ------------------------------------------------------------------ opens
\* C30: the first opening handshake of the session's life runs no
\* resubscribe pass and sends no subscribe frame; a pass runs only at an
\* open that follows an earlier one.
C30_FirstOpenSkipsResubscribe ==
    [][last'.op = "onOpen" =>
          /\ ~opened => (~Emitted(out', "resubscribe") /\ ~Emitted(out', "subscribe"))
          /\ Emitted(out', "resubscribe") => opened]_vars

\* the first open, just completed, without a pass
C30_Witness ==
    /\ last.op = "onOpen"
    /\ last.first
    /\ opened
    /\ Emitted(out, "on_open")
    /\ ~Emitted(out, "resubscribe")

\* ----------------------------------------------------------- construction
\* C29: the ceilings are clamped at construction: a requested
\* reconnect_max_tries above 50 is stored as 50, one at or below 50 as it is,
\* 0 when reconnect is off; a requested reconnect_max_delay below 0 is stored
\* as 0, any other as it is; and the factory retries by the stored values:
\* it never schedules more retries than the stored ceiling and has nothing
\* pending once the count has passed it.
C29_CeilingsClampedAtConstruction ==
    ctorArgs.recorded =>
        /\ ~ctorArgs.reconnect => reconnect_max_tries = 0
        /\ (ctorArgs.reconnect /\ ctorArgs.tries > RECONNECT_MAX_TRIES)
               => reconnect_max_tries = RECONNECT_MAX_TRIES
        /\ (ctorArgs.reconnect /\ ctorArgs.tries <= RECONNECT_MAX_TRIES)
               => reconnect_max_tries = ctorArgs.tries
        /\ ctorArgs.delay < 0 => reconnect_max_delay = 0
        /\ ctorArgs.delay >= 0 => reconnect_max_delay = ctorArgs.delay
        /\ \A f \in 1..nfac :
               /\ MaxRetries(f) = reconnect_max_tries
               /\ MaxDelay(f) = reconnect_max_delay
               /\ sched[f] > 0 => sched[f] <= reconnect_max_tries
               /\ retries[f] > reconnect_max_tries => ~callID[f]

\* a ceiling above the cap and a negative delay were asked for, and the
\* factory has used up the 50 retries
C29_Witness ==
    /\ ctorArgs.recorded
    /\ ctorArgs.reconnect
    /\ ctorArgs.tries > RECONNECT_MAX_TRIES
    /\ ctorArgs.delay < 0
    /\ reconnect_max_delay = 0
    /\ \E f \in 1..nfac :
          /\ sched[f] = RECONNECT_MAX_TRIES
          /\ retries[f] > RECONNECT_MAX_TRIES
          /\ ~callID[f]

\* ---------------------------------------------------------------- threads
\* C26: with the loop on the worker thread, no subscribe or unsubscribe of
\* the caller's thread runs between two registry reads of a resubscribe
\* pass on the worker.
C26_RegistryAccessSerialized ==
    loopThread = "worker" => ~raced

\* C27: at any time at most one factory of the session holds a connection,
\* a connection attempt or a pending retry, however often connect is called.
C27_SingleLogicalConnection ==
    LoopRunning => Cardinality(Live) <= 1

\* C28: a connect call without threaded is inside reactor.run until the
\* loop is stopped; a connect call with threaded is not.
C28_ForegroundConnectBlocks ==
    /\ (last.op = "connect" /\ ~threaded) => inRun
    /\ (last.op = "connect" /\ threaded) => ~inRun
    /\ inRun => reactor = "running"

\* -------------------------------------------------------- timers at close
\* C31: once a connection's close has been processed, whatever closed it and
\* even if on_error or on_close raised, its ping timer and its pong-check
\* timer are cancelled: neither is pending and neither runs for a factory
\* without a connection.
C31_TimersCancelledOnClose ==
    /\ \A f \in FacIds :
          conn[f] = "idle" => (next_ping[f] = None /\ next_pong_check[f] = None)
    /\ last.op \in {"_loop_ping", "_loop_pong_check"} => conn[last.fac] # "idle"

\* ------------------------------------------------------- 59-byte packets
\* a frame of one packet of 59 bytes has been parsed
OhlcvParsed ==
    /\ result.op = "_parse_binary"
    /\ input.built
    /\ Len(input.packets) = 1
    /\ Len(input.packets[1]) = 59

\* C32, as stated: a 59-byte packet is decoded as char[7] exchange, int32
\* token, double last_trade_price, int64 last_trade_time, double open, high,
\* low, close, int32 volume, and these widths add up to the 59 bytes.
C32_OhlcvLayoutInt64Time ==
    OhlcvParsed =>
        /\ FormatOhlcv = FormatOhlcvInt64Time
        /\ CalcSize(FormatOhlcvInt64Time) = Len(input.packets[1])

\* C32, amended: a 59-byte packet is decoded as char[7] exchange (trailing
\* nulls trimmed), int32 token, double last_trade_price, int32
\* last_trade_time, double open, high, low, close, int32 volume, at offsets
\* 0, 7, 11, 19, 23, 31, 39, 47 and 55, and these widths, 7 + 4 + 8 + 4 +
\* 4 * 8 + 4, add up to the 59 bytes.
C32_OhlcvLayoutInt32Time ==
    OhlcvParsed =>
        LET p == input.packets[1]
        IN  /\ 7 + 4 + 8 + 4 + 4 * 8 + 4 = Len(p)
            /\ CalcSize(FormatOhlcv) = Len(p)
            /\ result.raised = ""
            /\ Len(result.ticks) = 1
            /\ result.ticks[1] =
                   [exchange |-> TrimmedExchange(p),
                    token |-> LEInt32(SubSeq(p, 8, 11)),
                    last_trade_price |-> BitPattern(SubSeq(p, 12, 19)),
                    last_trade_time |-> LEInt32(SubSeq(p, 20, 23)),
                    open_price |-> BitPattern(SubSeq(p, 24, 31)),
                    high_price |-> BitPattern(SubSeq(p, 32, 39)),
                    low_price |-> BitPattern(SubSeq(p, 40, 47)),
                    close_price |-> BitPattern(SubSeq(p, 48, 55)),
                    volume |-> LEInt32(SubSeq(p, 56, 59))]
            /\ p = PacketOhlcv =>
                   result.ticks[1] =
                       [exchange |-> <<78, 83, 69, 95, 69, 81>>, token |-> 26,
                        last_trade_price |-> <<64, 0, 0, 0, 0, 0, 0, 0>>,
                        last_trade_time |-> 1700000000,
                        open_price |-> <<63, 240, 0, 0, 0, 0, 0, 0>>,
                        high_price |-> <<64, 8, 0, 0, 0, 0, 0, 0>>,
                        low_price |-> <<63, 224, 0, 0, 0, 0, 0, 0>>,
                        close_price |-> <<63, 248, 0, 0, 0, 0, 0, 0>>,
                        volume |-> 1000]

C32_Witness ==
    /\ OhlcvParsed
    /\ input.packets = <<PacketOhlcv>>
    /\ Len(result.ticks) = 1
    /\ result.ticks[1].last_trade_time = 1700000000
    /\ result.ticks[1].volume = 1000

\* ------------------------------------------- re-open with nothing subscribed
\* C33: at a re-open that finds every pair that was subscribed unsubscribed
\* again, the resubscribe pass sends no frame and raises nothing, and
\* on_open is called after it.
C33_ReopenAfterUnsubscribingAll ==
    (/\ last.op = "onOpen"
     /\ ~last.first
     /\ DOMAIN subscribed_tokens # {}
     /\ Entries(subscribed_tokens) = {})
    => /\ last.raised = ""
       /\ ~Emitted(out, "subscribe")
       /\ Len(out) > 0 /\ out[Len(out)].ev = "on_open"

\* -------------------------------------------------- before the first connect
\* C34: on a session on which connect has never been called, is_connected()
\* returns False and close() changes nothing, and neither raises.
C34_NeverConnectedQueriesAreSafe ==
    nfac = 0 =>
        /\ last.op = "is_connected" => (last.raised = "" /\ last.n = 0)
        /\ last.op = "close" => last.raised = ""

\* ------------------------------------------------- malformed binary frames
\* C35: processing a binary frame never raises, malformed or not: a frame
\* whose packet count or whose packet length runs past its end is dropped,
\* whole or from there on.
C35_BinaryFrameNeverRaises ==
    result.op = "_on_message" => result.raised = ""

====
